---- MODULE Spec2Model ----
(***************************************************************************)
(* The career-data store of supabase_schema.sql: six tables owned by rows  *)
(* of auth.users, their row level security policies, their column          *)
(* constraints, the ON DELETE CASCADE foreign keys and the                 *)
(* on_auth_user_created trigger; and the web client's screens and         *)
(* onboarding steps (SpecClient).                                          *)
(*                                                                         *)
(* A request is one SQL statement run for a caller whose auth.uid() is     *)
(* `uid`.  In Spec every statement is one atomic step (autocommit).  In    *)
(* SpecTxn the statements that write auth.users, profiles and              *)
(* learning_progress are split into "statement executed" and "commit" so   *)
(* that transactions interleave.                                           *)
(***************************************************************************)
EXTENDS Integers, FiniteSets, Sequences, TLC

\* ------------------------------------------------------------------ bounds
\* Primary keys are drawn from 1..MaxId (a caller-sent id or gen_random_uuid()).
MaxId == 2
\* Tenant inserts are enabled while the six tables hold fewer rows than this.
MaxRows == 3
\* Concurrent database sessions of SpecTxn.
MaxSessions == 2

\* ------------------------------------------------------------------ values
NULL == "NULL"
\* SQL NULL in the INTEGER columns energy_level and stress_level.
NULLINT == 0 - 1

Tenants == {"t1", "t2"}
\* auth.uid() of a request: a tenant's JWT subject, or NULL for an anonymous call.
Callers == Tenants \cup {NULL}
Ids == 1..MaxId
Sessions == 1..MaxSessions

Tables ==
  {"profiles", "applications", "learning_progress", "wellness_logs", "saved_jobs",
   "interview_sessions"}

StatusSet == {"applied", "viewed", "interview", "offer", "rejected"}
MoodSet == {"great", "good", "neutral", "low", "struggling"}
InterviewTypeSet == {"behavioral", "technical", "hr", "case"}
EnergyMin == 1
EnergyMax == 10

\* ------------------------------------------------------------------ state
VARIABLES
  users,     \* the ids of the committed rows of auth.users
  db,        \* table name -> the set of its committed rows
  result,    \* what the last statement was and what it answered
  txns,      \* SpecTxn: session -> its open transaction
  today,     \* CURRENT_DATE, as a day number
  call,      \* SpecStreak: the get_learning_streak() call that is running
  client     \* SpecClient: the web client in one browser tab

vars == <<users, db, result, txns, today, call, client>>

\* The variables of the store.
server == <<users, db, result, txns, today, call>>

\* ------------------------------------------------------------------ client
\* The web client of App.tsx and OnboardingFlow.tsx in one browser tab.  `client`
\* holds the current screen, localStorage, the useState values of the mounted
\* step component and the requests that have been sent and not yet answered.
\* Each operator below is what one event handler, or one handler's continuation
\* after an await, makes of the client state c.

Screen ==
  {"LANDING", "ONBOARDING_1", "ONBOARDING_2", "ONBOARDING_3", "ONBOARDING_4",
   "ONBOARDING_5", "DASHBOARD", "ANALYZER"}

\* Requests are numbered in the order they are sent, up to MaxRequests.
MaxRequests == 3

\* The useState initial values of Step1..Step4; data = null is NoData.
Step1Init == [isLogin |-> FALSE, github |-> "", loading |-> FALSE, error |-> ""]
Step2Init == [uploading |-> FALSE, analyzing |-> FALSE, skills |-> <<>>]
NoData == [scan |-> 0, user |-> ""]
Step3Init == [analyzing |-> FALSE, data |-> NoData, username |-> "", error |-> ""]
Step4Init == [role |-> "", saving |-> FALSE]

\* The tab after loading the page with an empty localStorage.  `console` is the
\* last line written to the console.
ClientInit ==
  [currentScreen |-> "LANDING",
   localStorage |-> [access_token |-> NULL, github_username |-> NULL],
   step1 |-> Step1Init, step2 |-> Step2Init, step3 |-> Step3Init, step4 |-> Step4Init,
   pending |-> {}, started |-> 0, console |-> ""]

\* api.post / api.put: the request is on its way.  `live` says that the component
\* instance whose handler sent it is still mounted; `arg` is what the handler's
\* closure holds.
Send(c, op, arg) ==
  [c EXCEPT !.started = @ + 1,
            !.pending = @ \cup {[id |-> c.started + 1, op |-> op, arg |-> arg,
                                 live |-> TRUE]}]

\* The handler of request id still belongs to the mounted component: its
\* setState calls take effect.
Live(c, id) == \E q \in c.pending : q.id = id /\ q.live

\* The handler of request id has run to its end.
Forget(c, id) == [c EXCEPT !.pending = {q \in @ : q.id # id}]

\* Step3.handleScan(user).
handleScan(c, user) ==
  Send([c EXCEPT !.step3.analyzing = TRUE, !.step3.error = ""], "analyzeGithub", user)

\* App.navigate(screen): setCurrentScreen, then the render.  With another screen
\* the mounted step component goes (its state is dropped, its handlers in flight
\* set nothing any more) and the new one starts from its initial state; Step3
\* scans the stored GitHub user as it mounts.
navigate(c, screen) ==
  IF screen = c.currentScreen THEN c
  ELSE LET m == [c EXCEPT !.currentScreen = screen,
                          !.step1 = Step1Init, !.step2 = Step2Init,
                          !.step3 = Step3Init, !.step4 = Step4Init,
                          !.pending = {[q EXCEPT !.live = FALSE] : q \in @}]
           storedUsername == m.localStorage.github_username
       IN  IF screen = "ONBOARDING_3" /\ storedUsername # NULL
             THEN handleScan([m EXCEPT !.step3.username = storedUsername], storedUsername)
             ELSE m

\* The buttons that only navigate: <<screen they are on, screen they lead to>>.
Links ==
  {<<"LANDING", "ONBOARDING_1">>, <<"ONBOARDING_2", "ONBOARDING_1">>,
   <<"ONBOARDING_3", "ONBOARDING_4">>, <<"ONBOARDING_4", "ONBOARDING_3">>,
   <<"ONBOARDING_5", "DASHBOARD">>, <<"DASHBOARD", "ANALYZER">>,
   <<"ANALYZER", "DASHBOARD">>}
    \cup {<<s, "LANDING">> : s \in {"ONBOARDING_1", "ONBOARDING_2", "ONBOARDING_3",
                                    "ONBOARDING_4", "ONBOARDING_5"}}

\* ---- Step1
\* What /auth/signin and /auth/signup answer; status error is a rejected promise.
SigninResponses ==
  {[status |-> "ok", access_token |-> "tok", msg |-> ""],
   [status |-> "ok", access_token |-> NULL, msg |-> ""],
   [status |-> "error", access_token |-> NULL, msg |-> "Invalid login credentials"],
   [status |-> "error", access_token |-> NULL, msg |-> "security purposes"]}

SignupResponses ==
  {[status |-> "ok", success |-> TRUE, msg |-> ""],
   [status |-> "ok", success |-> FALSE, msg |-> ""],
   [status |-> "error", success |-> FALSE, msg |-> "User already registered"]}

\* handleAuth up to its first await: the sign-in of a login, the sign-up otherwise.
handleAuth(c) ==
  Send([c EXCEPT !.step1.loading = TRUE, !.step1.error = "",
                 !.console = IF c.step1.isLogin THEN "Attempting login with:"
                             ELSE "Attempting signup with:"],
       IF c.step1.isLogin THEN "signin" ELSE "signup", c.step1.github)

\* catch (err) of handleAuth.
AuthError(c, r, msg) ==
  LET logged == [c EXCEPT !.console = "Auth error:"]
  IN  IF ~Live(c, r.id) THEN logged
      ELSE [logged EXCEPT !.step1.error = IF msg = "security purposes"
                                            THEN "Too many attempts" ELSE msg]

\* finally of handleAuth: setLoading(false), and the handler is over.
AuthFinally(c, r) ==
  Forget(IF Live(c, r.id) THEN [c EXCEPT !.step1.loading = FALSE] ELSE c, r.id)

\* A login that navigates on every answered sign-in.
LoginNavigatesWithoutToken(c, r, res) ==
  AuthFinally(IF res.status = "error" THEN AuthError(c, r, res.msg)
              ELSE navigate([c EXCEPT !.localStorage.access_token = res.access_token],
                            "DASHBOARD"), r)

\* handleAuth of a login after await auth.signin.
handleAuthLogin(c, r, res) ==
  AuthFinally(IF res.status = "error" THEN AuthError(c, r, res.msg)
              ELSE IF res.access_token # NULL
                THEN navigate([c EXCEPT !.localStorage.access_token = res.access_token],
                              "DASHBOARD")
              ELSE c, r)

\* handleAuth of a sign-up after await auth.signup: on success the sign-in is sent.
handleAuthSignup(c, r, res) ==
  IF res.status = "error" THEN AuthFinally(AuthError(c, r, res.msg), r)
  ELSE IF res.success
    THEN [c EXCEPT !.pending = (@ \ {r}) \cup {[r EXCEPT !.op = "signin_after_signup"]}]
  ELSE AuthFinally(c, r)

\* handleAuth of a sign-up after await auth.signin: the inner try and catch.
handleAuthSignupSignin(c, r, res) ==
  AuthFinally(
    IF res.status = "error"
      THEN (IF Live(c, r.id) THEN [c EXCEPT !.step1.isLogin = TRUE] ELSE c)
    ELSE IF res.access_token # NULL
      THEN navigate([c EXCEPT !.localStorage.access_token = res.access_token,
                              !.localStorage.github_username =
                                 IF r.arg # "" THEN r.arg ELSE @],
                    "ONBOARDING_2")
    ELSE c, r)

\* ---- Step2
\* What /profile/analyze-resume answers: profile.skills is a list of strings and
\* of objects with a name, or is missing.
ResumeResponses ==
  {[status |-> "ok", skills |-> <<>>, has_skills |-> FALSE],
   [status |-> "ok", has_skills |-> TRUE,
    skills |-> [i \in 1..6 |-> IF i = 2 THEN [kind |-> "object", name |-> "go"]
                               ELSE [kind |-> "string", name |-> "ts"]]],
   [status |-> "error", skills |-> <<>>, has_skills |-> FALSE]}

\* skills.map(s => typeof s === 'string' ? s : s.name).slice(0, 5).
SkillNames(skills) ==
  [i \in 1..(IF Len(skills) < 5 THEN Len(skills) ELSE 5) |-> skills[i].name]

\* handleFileUpload up to its await, for a file input that holds a file.
handleFileUpload(c) ==
  Send([c EXCEPT !.step2.uploading = TRUE, !.step2.analyzing = TRUE],
       "analyzeResume", "")

\* handleFileUpload after await onboarding.analyzeResume: setSkills on an answer
\* with skills, an alert on an error, and the finally.
handleFileUploaded(c, r, res) ==
  LET shown == IF res.status = "error" THEN [c EXCEPT !.console = "Resume upload failed"]
               ELSE IF Live(c, r.id) /\ res.has_skills
                 THEN [c EXCEPT !.step2.skills = SkillNames(res.skills)]
               ELSE c
  IN  Forget(IF Live(c, r.id)
               THEN [shown EXCEPT !.step2.uploading = FALSE, !.step2.analyzing = FALSE]
               ELSE shown, r.id)

\* ---- Step3
\* What /profile/analyze-github/<user> answers for request r: data that tell the
\* scan they answer, an empty body, or an error.
ScanResponses(r) ==
  {[status |-> "ok", data |-> [scan |-> r.id, user |-> r.arg], msg |-> ""],
   [status |-> "ok", data |-> NoData, msg |-> ""],
   [status |-> "error", data |-> NoData, msg |-> "Failed to analyze GitHub"]}

\* handleScan after await onboarding.analyzeGithub.
handleScanned(c, r, res) ==
  LET logged == IF res.status = "error"
                  THEN [c EXCEPT !.console = "GitHub analysis failed"] ELSE c
      shown == IF ~Live(c, r.id) THEN logged
               ELSE IF res.status = "error" THEN [logged EXCEPT !.step3.error = res.msg]
               ELSE IF res.data # NoData THEN [c EXCEPT !.step3.data = res.data]
               ELSE c
  IN  Forget(IF Live(c, r.id) THEN [shown EXCEPT !.step3.analyzing = FALSE] ELSE shown,
             r.id)

\* ---- Step4
\* A handler whose catch does not move on.
ContinuedOnSuccessOnly(c, r, res) ==
  LET moved == IF res = "ok" THEN navigate(c, "ONBOARDING_5")
               ELSE [c EXCEPT !.console = "Failed to save role"]
  IN  Forget(IF Live(moved, r.id) THEN [moved EXCEPT !.step4.saving = FALSE] ELSE moved,
             r.id)

\* handleContinue up to its await; with an empty role it returns at once.
handleContinue(c) ==
  IF c.step4.role = "" THEN c
  ELSE Send([c EXCEPT !.step4.saving = TRUE], "updateProfile", c.step4.role)

\* handleContinue after await auth.updateProfile: try and catch both navigate,
\* then the finally.
handleContinued(c, r, res) ==
  LET logged == IF res = "error" THEN [c EXCEPT !.console = "Failed to save role"] ELSE c
      moved == navigate(logged, "ONBOARDING_5")
  IN  Forget(IF Live(moved, r.id) THEN [moved EXCEPT !.step4.saving = FALSE] ELSE moved,
             r.id)

\* ---- events
\* One event of the tab: the client state becomes `next`.
Event(next) ==
  /\ next.started <= MaxRequests
  /\ client' = next
  /\ UNCHANGED server

\* A button that only navigates is clicked.
Click(to) ==
  /\ <<client.currentScreen, to>> \in Links
  /\ Event(navigate(client, to))

\* Step1: the link under the form, the GitHub field, the form's submit button
\* (disabled while loading).
ToggleLogin ==
  /\ client.currentScreen = "ONBOARDING_1"
  /\ Event([client EXCEPT !.step1.isLogin = ~@, !.step1.error = ""])

TypeGithub(g) ==
  /\ client.currentScreen = "ONBOARDING_1"
  /\ ~client.step1.isLogin
  /\ g # client.step1.github
  /\ Event([client EXCEPT !.step1.github = g])

Submit ==
  /\ client.currentScreen = "ONBOARDING_1"
  /\ ~client.step1.loading
  /\ Event(handleAuth(client))

\* The answer of a request of handleAuth arrives.
AuthAnswered ==
  \E r \in client.pending :
    \/ /\ r.op = "signin"
       /\ \E res \in SigninResponses : Event(handleAuthLogin(client, r, res))
    \/ /\ r.op = "signup"
       /\ \E res \in SignupResponses : Event(handleAuthSignup(client, r, res))
    \/ /\ r.op = "signin_after_signup"
       /\ \E res \in SigninResponses : Event(handleAuthSignupSignin(client, r, res))

\* Step2: a file is chosen in the file input; Continue (disabled while uploading).
SelectFile ==
  /\ client.currentScreen = "ONBOARDING_2"
  /\ Event(handleFileUpload(client))

ResumeAnswered ==
  \E r \in client.pending :
    /\ r.op = "analyzeResume"
    /\ \E res \in ResumeResponses : Event(handleFileUploaded(client, r, res))

Continue2 ==
  /\ client.currentScreen = "ONBOARDING_2"
  /\ ~client.step2.uploading
  /\ Event(navigate(client, "ONBOARDING_3"))

\* Step3: the username field and Scan (shown while there is no data and no scan
\* runs), Rescan GitHub, Continue to Analysis (disabled while analyzing).
TypeUsername(u) ==
  /\ client.currentScreen = "ONBOARDING_3"
  /\ client.step3.data = NoData /\ ~client.step3.analyzing
  /\ u # client.step3.username
  /\ Event([client EXCEPT !.step3.username = u])

Scan ==
  /\ client.currentScreen = "ONBOARDING_3"
  /\ client.step3.data = NoData /\ ~client.step3.analyzing
  /\ client.step3.username # ""
  /\ Event(handleScan(client, client.step3.username))

Rescan ==
  /\ client.currentScreen = "ONBOARDING_3"
  /\ Event(handleScan(client, client.step3.username))

ScanAnswered ==
  \E r \in client.pending :
    /\ r.op = "analyzeGithub"
    /\ \E res \in ScanResponses(r) : Event(handleScanned(client, r, res))

Continue3 ==
  /\ client.currentScreen = "ONBOARDING_3"
  /\ ~client.step3.analyzing
  /\ Event(navigate(client, "ONBOARDING_4"))

\* Step4: the role field and the role buttons; Continue (disabled without a role
\* and while saving).
SetRole(role) ==
  /\ client.currentScreen = "ONBOARDING_4"
  /\ role # client.step4.role
  /\ Event([client EXCEPT !.step4.role = role])

Continue4 ==
  /\ client.currentScreen = "ONBOARDING_4"
  /\ client.step4.role # "" /\ ~client.step4.saving
  /\ Event(handleContinue(client))

ProfileAnswered ==
  \E r \in client.pending :
    /\ r.op = "updateProfile"
    /\ \E res \in {"ok", "error"} : Event(handleContinued(client, r, res))

\* Dashboard's Logout: localStorage.clear() and window.location.reload().  The
\* page starts again; the handlers of the old page are gone.
Logout ==
  /\ client.currentScreen = "DASHBOARD"
  /\ Event(ClientInit)


\* ------------------------------------------------------------------ schema
\* The column DEFAULTs of each CREATE TABLE; id's default gen_random_uuid() is the
\* argument `gen`, NOW() falls on the day `today`, and '[]'::jsonb is the empty
\* list.  Columns that no policy, constraint, trigger or function reads and that
\* have no DEFAULT (urls, notes, overall_score, ...) and the timestamps of the
\* other tables are left out.
DefaultRow(tbl, gen) ==
  CASE tbl = "profiles" ->
         [id |-> gen, user_id |-> NULL, name |-> NULL, email |-> NULL,
          skills |-> <<>>, experience |-> <<>>, education |-> <<>>,
          career_goals |-> <<>>]
    [] tbl = "applications" ->
         [id |-> gen, user_id |-> NULL, job_title |-> NULL, company |-> NULL,
          status |-> "applied", updated_at |-> today]
    [] tbl = "learning_progress" ->
         [id |-> gen, user_id |-> NULL, milestone_id |-> NULL, completed |-> FALSE,
          updated_at |-> today]
    [] tbl = "wellness_logs" ->
         [id |-> gen, user_id |-> NULL, mood |-> NULL, energy_level |-> NULLINT,
          stress_level |-> NULLINT]
    [] tbl = "saved_jobs" ->
         [id |-> gen, user_id |-> NULL, job_title |-> NULL, company |-> NULL]
    [] tbl = "interview_sessions" ->
         [id |-> gen, user_id |-> NULL, interview_type |-> NULL,
          questions |-> <<>>, answers |-> <<>>, scores |-> <<>>]

\* The JSONB columns that hold lists.  A JSON list is written as the sequence of
\* its objects, and an object as the sequence of its <<key, value>> pairs in the
\* order of its text.
JsonbCols ==
  {"skills", "experience", "education", "career_goals", "questions", "answers",
   "scores"}

\* The keys of the objects, in the order jsonb stores them: shorter keys first,
\* keys of one length bytewise.
KeyOrder == <<"name", "level">>

HasKey(o, k) == \E i \in 1..Len(o) : o[i][1] = k

\* The value of key k in the object o; of a key written twice the last one counts
\* (jsonb input, and JSON.parse on the client as well).
Member(o, k) ==
  LET at == {i \in 1..Len(o) : o[i][1] = k}
  IN  o[CHOOSE i \in at : \A j \in at : j <= i][2]

\* The jsonb form of one object: each key once, the keys in jsonb's order.
RECURSIVE ObjectIn(_, _)
ObjectIn(o, ks) ==
  IF ks = <<>> THEN <<>>
  ELSE (IF HasKey(o, Head(ks)) THEN <<(<<Head(ks), Member(o, Head(ks))>>)>> ELSE <<>>)
         \o ObjectIn(o, Tail(ks))

\* A storage that keeps the elements of an array newest first.
JsonbInNewestFirst(v) == [i \in 1..Len(v) |-> ObjectIn(v[Len(v) + 1 - i], KeyOrder)]

\* The jsonb input conversion of a JSON list: the array keeps its elements in
\* their order, each object is stored in its jsonb form.
jsonb_in(v) == [i \in 1..Len(v) |-> ObjectIn(v[i], KeyOrder)]

\* The row with the columns named in `cols` set to the values given there; a
\* value for a JSONB column is converted on its way in.
Merge(row, cols) ==
  [c \in DOMAIN row |->
     IF c \notin DOMAIN cols THEN row[c]
     ELSE IF c \in JsonbCols THEN jsonb_in(cols[c])
     ELSE cols[c]]

\* A policy for every command on every table.
PoliciesForAllCommands(tbl) == {"SELECT", "INSERT", "UPDATE", "DELETE"}

\* The commands for which the table has a CREATE POLICY.  Row level security is
\* enabled on every table, so a command without a policy sees no row.
Policies(tbl) ==
  CASE tbl \in {"profiles", "applications", "learning_progress"} ->
         {"SELECT", "INSERT", "UPDATE"}
    [] tbl \in {"wellness_logs", "interview_sessions"} -> {"SELECT", "INSERT"}
    [] tbl = "saved_jobs" -> {"SELECT", "INSERT", "DELETE"}

\* A comparison that takes NULL = NULL for TRUE.
OwnerMatchNullEq(uid, row) == uid = row.user_id

\* auth.uid() = user_id, in SQL's three-valued logic: NULL on either side is not TRUE.
OwnerMatch(uid, row) == uid # NULL /\ row.user_id # NULL /\ uid = row.user_id

\* Policies that do not compare the owner; a SELECT policy that does not.
PolicyAllowsAll(cmd, tbl, uid, row) == cmd \in Policies(tbl)

PolicySelectOpen(cmd, tbl, uid, row) ==
  cmd \in Policies(tbl) /\ (cmd = "SELECT" \/ OwnerMatch(uid, row))

\* USING / WITH CHECK of the policy of `cmd` on `tbl` (an UPDATE policy without
\* WITH CHECK applies its USING expression to the new row too).
PolicyOK(cmd, tbl, uid, row) == cmd \in Policies(tbl) /\ OwnerMatch(uid, row)

\* NOT NULL columns.
NotNullOK(tbl, row) ==
  CASE tbl \in {"applications", "saved_jobs"} ->
         row.job_title # NULL /\ row.company # NULL
    [] tbl = "learning_progress" -> row.milestone_id # NULL
    [] OTHER -> TRUE

\* A schema with the primary keys alone.
\* Columns declared without CHECK.
CheckNothing(tbl, row) == TRUE

\* CHECK constraints; a CHECK whose expression is NULL is satisfied.
CheckOK(tbl, row) ==
  CASE tbl = "applications" -> row.status = NULL \/ row.status \in StatusSet
    [] tbl = "wellness_logs" ->
         /\ row.mood = NULL \/ row.mood \in MoodSet
         /\ row.energy_level = NULLINT \/ row.energy_level \in EnergyMin..EnergyMax
         /\ row.stress_level = NULLINT \/ row.stress_level \in EnergyMin..EnergyMax
    [] tbl = "interview_sessions" ->
         row.interview_type = NULL \/ row.interview_type \in InterviewTypeSet
    [] OTHER -> TRUE

UniqueKeyPkOnly(tbl, a, b) == a.id = b.id

\* Two rows that a PRIMARY KEY or UNIQUE constraint of the table forbids together
\* (NULLs are distinct in a UNIQUE constraint).
UniqueKey(tbl, a, b) ==
  \/ a.id = b.id
  \/ /\ tbl = "profiles"
     /\ a.user_id # NULL
     /\ a.user_id = b.user_id
  \/ /\ tbl = "learning_progress"
     /\ a.user_id # NULL
     /\ a.user_id = b.user_id
     /\ a.milestone_id = b.milestone_id

UniqueOK(tbl, row, rows) == \A r \in rows : ~UniqueKey(tbl, row, r)

\* A unique index that does not look at uncommitted rows.
NeverWaits(tbl, row, pending) == FALSE

\* A unique index makes an INSERT or UPDATE wait while a row that another open
\* transaction has written and not committed holds the same key.
Waits(tbl, row, pending) == \E r \in pending : UniqueKey(tbl, row, r)

\* A user_id column without REFERENCES.
FkAny(row, us) == TRUE

\* user_id UUID REFERENCES auth.users(id): NULL, or an existing user.
FkOK(row, us) == row.user_id = NULL \/ row.user_id \in us


profiles == db["profiles"]
applications == db["applications"]
learning_progress == db["learning_progress"]
wellness_logs == db["wellness_logs"]
saved_jobs == db["saved_jobs"]
interview_sessions == db["interview_sessions"]

\* A statement without WHERE id = ...: it ranges over every row its policy lets
\* through.  (0 is not an id.)
ALL == 0

Matches(id, row) == id = ALL \/ row.id = id

TotalRows(d) ==
  Cardinality(d["profiles"]) + Cardinality(d["applications"])
    + Cardinality(d["learning_progress"]) + Cardinality(d["wellness_logs"])
    + Cardinality(d["saved_jobs"]) + Cardinality(d["interview_sessions"])

\* ------------------------------------------------------------------ statements
\* Each Exec operator is one statement run for auth.uid() = uid on the tables d;
\* it answers [status, rows, db].  A statement that raises an error changes nothing.
Answer(status, rows, d) == [status |-> status, rows |-> rows, db |-> d]

\* SELECT * FROM tbl [WHERE id = ...]: the rows the SELECT policy lets through.
ExecSelect(uid, tbl, id, d) ==
  LET seen == {r \in d[tbl] : PolicyOK("SELECT", tbl, uid, r) /\ Matches(id, r)}
  IN  Answer(IF id # ALL /\ seen = {} THEN "not_found" ELSE "ok", seen, d)

\* INSERT INTO tbl: WITH CHECK of the INSERT policy, then NOT NULL and CHECK, then
\* the unique indexes, then the foreign key (PostgreSQL's order).
ExecInsert(uid, tbl, row, us, d) ==
  IF ~PolicyOK("INSERT", tbl, uid, row) THEN Answer("rls_violation", {}, d)
  ELSE IF ~(NotNullOK(tbl, row) /\ CheckOK(tbl, row))
    THEN Answer("validation_error", {}, d)
  ELSE IF ~UniqueOK(tbl, row, d[tbl]) THEN Answer("unique_violation", {}, d)
  ELSE IF ~FkOK(row, us) THEN Answer("fk_violation", {}, d)
  ELSE Answer("ok", {}, [d EXCEPT ![tbl] = @ \cup {row}])

\* An UPDATE under a BEFORE UPDATE trigger that sets updated_at = NOW().
ExecUpdateStamping(uid, tbl, id, patch, us, d) ==
  LET old == {r \in d[tbl] : /\ PolicyOK("UPDATE", tbl, uid, r)
                             /\ PolicyOK("SELECT", tbl, uid, r)
                             /\ Matches(id, r)}
      new == {Merge(r, patch @@ [updated_at |-> today]) : r \in old}
  IN  IF old = {} THEN Answer("not_found", {}, d)
      ELSE IF \E n \in new : ~PolicyOK("UPDATE", tbl, uid, n)
        THEN Answer("rls_violation", {}, d)
      ELSE Answer("ok", {}, [d EXCEPT ![tbl] = (@ \ old) \cup new])

\* An UPDATE whose policy is applied to the rows as they were only.
ExecUpdateUsingOnly(uid, tbl, id, patch, us, d) ==
  LET old == {r \in d[tbl] : /\ PolicyOK("UPDATE", tbl, uid, r)
                             /\ PolicyOK("SELECT", tbl, uid, r)
                             /\ Matches(id, r)}
  IN  IF old = {} THEN Answer("not_found", {}, d)
      ELSE Answer("ok", {}, [d EXCEPT ![tbl] = (@ \ old) \cup {Merge(r, patch) : r \in old}])

\* UPDATE tbl SET patch [WHERE id = ...]: the rows the UPDATE (and SELECT) policy
\* lets through are rewritten; each new row must pass the policy again and the
\* table's constraints.  No row matched is not an error: zero rows are updated.
ExecUpdate(uid, tbl, id, patch, us, d) ==
  LET old == {r \in d[tbl] : /\ PolicyOK("UPDATE", tbl, uid, r)
                             /\ PolicyOK("SELECT", tbl, uid, r)
                             /\ Matches(id, r)}
      kept == d[tbl] \ old
      new == {Merge(r, patch) : r \in old}
  IN  IF old = {} THEN Answer("not_found", {}, d)
      ELSE IF \E n \in new : ~PolicyOK("UPDATE", tbl, uid, n)
        THEN Answer("rls_violation", {}, d)
      ELSE IF \E n \in new : ~(NotNullOK(tbl, n) /\ CheckOK(tbl, n))
        THEN Answer("validation_error", {}, d)
      ELSE IF \/ Cardinality(new) < Cardinality(old)
              \/ \E n \in new : ~UniqueOK(tbl, n, kept \cup (new \ {n}))
        THEN Answer("unique_violation", {}, d)
      ELSE IF \E n \in new : ~FkOK(n, us) THEN Answer("fk_violation", {}, d)
      ELSE Answer("ok", {}, [d EXCEPT ![tbl] = kept \cup new])

\* DELETE FROM tbl [WHERE id = ...]: the rows the DELETE (and SELECT) policy lets
\* through are removed.
ExecDelete(uid, tbl, id, d) ==
  LET old == {r \in d[tbl] : /\ PolicyOK("DELETE", tbl, uid, r)
                             /\ PolicyOK("SELECT", tbl, uid, r)
                             /\ Matches(id, r)}
  IN  IF old = {} THEN Answer("not_found", {}, d)
      ELSE Answer("ok", {}, [d EXCEPT ![tbl] = @ \ old])

\* ------------------------------------------------------------------ lifecycle
\* An INSERT INTO public.profiles (user_id, email) that leaves the name out.
NewProfileWithoutName(new, gen) ==
  Merge(DefaultRow("profiles", gen), [user_id |-> new.id, email |-> new.email])

\* raw_user_meta_data ->> key: the text under the key, NULL when the metadata has
\* no such key.
MetaText(meta, key) == IF key \in DOMAIN meta THEN meta[key] ELSE NULL

\* The row of INSERT INTO public.profiles (user_id, email, name) VALUES (new.id,
\* new.email, new.raw_user_meta_data ->> 'name'); the other columns take defaults.
\* new.name is the text MetaText took from the metadata.
NewProfile(new, gen) ==
  Merge(DefaultRow("profiles", gen),
        [user_id |-> new.id, email |-> new.email, name |-> new.name])

\* public.handle_new_user() for the auth.users row `new` (SECURITY DEFINER: no
\* policy applies), on the profiles rows `profs` with the users `us` in sight.
\* It answers [status, rows]: the rows it wrote.
handle_new_user(new, gen, profs, us) ==
  LET row == NewProfile(new, gen)
  IN  IF ~UniqueOK("profiles", row, profs)
        THEN [status |-> "unique_violation", rows |-> {}]
      ELSE IF ~FkOK(row, us) THEN [status |-> "fk_violation", rows |-> {}]
      ELSE [status |-> "ok", rows |-> {row}]

\* A trigger function that swallows its errors.
NeverAborts(status) == FALSE

\* handle_new_user() has no EXCEPTION block and the trigger is a row trigger of the
\* INSERT: an error of the function's INSERT is an error of INSERT INTO auth.users.
Aborts(status) == status # "ok"

\* The primary key of auth.users(id), which the six foreign keys reference.
InsertUser(t, us) == IF t \in us THEN "unique_violation" ELSE "ok"

\* ON DELETE CASCADE on profiles alone.
CascadeProfilesOnly(t, d) ==
  [tbl \in Tables |-> IF tbl = "profiles" THEN {r \in d[tbl] : r.user_id # t} ELSE d[tbl]]

\* user_id ... REFERENCES auth.users(id) ON DELETE CASCADE, on each of the six tables.
Cascade(t, d) == [tbl \in Tables |-> {r \in d[tbl] : r.user_id # t}]

\* INSERT INTO auth.users with the AFTER INSERT trigger on_auth_user_created, run
\* as one statement.  It answers [status, users, db].
on_auth_user_created(new, gen, us, d) ==
  LET h == handle_new_user(new, gen, d["profiles"], us \cup {new.id})
  IN  IF InsertUser(new.id, us) # "ok"
        THEN [status |-> InsertUser(new.id, us), users |-> us, db |-> d]
      ELSE IF Aborts(h.status) THEN [status |-> h.status, users |-> us, db |-> d]
      ELSE [status |-> h.status, users |-> us \cup {new.id},
            db |-> [d EXCEPT !["profiles"] = @ \cup h.rows]]

\* ------------------------------------------------------------------ requests
\* What the last statement was and how it was answered.
Said(op, a) == [op |-> op, status |-> a.status]

\* No statement has answered since the last answer was handed to its caller.
Idle == [op |-> "none", status |-> "ok"]

\* No get_learning_streak() call is running.
NoCall == [pc |-> "none"]

\* A session without an open transaction.
NoWork == [kind |-> "idle", tbl |-> "none", new |-> <<>>, rows |-> {}]

NoTxn == [s \in Sessions |-> NoWork]

\* The rows an open transaction has written and not yet committed.
Written(tx) == tx.rows

\* The uncommitted rows of `tbl`, and the uncommitted auth.users ids, written by
\* the sessions other than s.
Pending(tbl, s) ==
  UNION {Written(txns[o]) : o \in {o \in Sessions \ {s} : txns[o].tbl = tbl}}

PendingUsers(s) ==
  {txns[o].new.id : o \in {o \in Sessions \ {s} : txns[o].kind # "idle" /\ txns[o].kind # "insert"}}

OpenTxns == Cardinality({s \in Sessions : txns[s] # NoWork})

Init ==
  /\ users = {}
  /\ db = [tbl \in Tables |-> {}]
  /\ result = Idle
  /\ txns = NoTxn
  /\ today = 0
  /\ call = NoCall
  /\ client = ClientInit

\* The answer of the last statement is handed to its caller; under Spec the
\* statements run one at a time, each after the answer of the one before it.
Return ==
  /\ result # Idle
  /\ result' = Idle
  /\ UNCHANGED <<users, db, txns, today, call, client>>

\* The identity provider creates tenant t: one INSERT INTO auth.users.
CreateTenant(t, name, gen) ==
  LET o == on_auth_user_created([id |-> t, email |-> "e", name |-> name], gen,
                                users, db)
  IN  /\ result = Idle
      /\ TotalRows(db) < MaxRows
      /\ users' = o.users
      /\ db' = o.db
      /\ result' = Said("create_tenant", o)
      /\ UNCHANGED <<txns, today, call, client>>

\* The identity provider deletes tenant t: DELETE FROM auth.users WHERE id = t.
DeleteTenant(t) ==
  /\ result = Idle
  /\ \A s \in Sessions : \A r \in Written(txns[s]) : r.user_id # t
  /\ users' = users \ {t}
  /\ db' = IF t \in users THEN Cascade(t, db) ELSE db
  /\ result' = [op |-> "delete_tenant",
                status |-> IF t \in users THEN "ok" ELSE "not_found"]
  /\ UNCHANGED <<txns, today, call, client>>

Select(uid, tbl, id) ==
  /\ result = Idle
  /\ result' = Said("select", ExecSelect(uid, tbl, id, db))
  /\ UNCHANGED <<users, db, txns, today, call, client>>

\* `gen` is the id of the new row: sent by the caller, or drawn by gen_random_uuid().
Insert(uid, tbl, gen, cols) ==
  LET a == ExecInsert(uid, tbl, Merge(DefaultRow(tbl, gen), cols), users, db)
  IN  /\ result = Idle
      /\ TotalRows(db) < MaxRows
      /\ db' = a.db
      /\ result' = Said("insert", a)
      /\ UNCHANGED <<users, txns, today, call, client>>

Update(uid, tbl, id, patch) ==
  LET a == ExecUpdate(uid, tbl, id, patch, users, db)
  IN  /\ result = Idle
      /\ \A n \in a.db[tbl] \ db[tbl] : ~Waits(tbl, n, Pending(tbl, 0))
      /\ db' = a.db
      /\ result' = Said("update", a)
      /\ UNCHANGED <<users, txns, today, call, client>>

Delete(uid, tbl, id) ==
  LET a == ExecDelete(uid, tbl, id, db)
  IN  /\ result = Idle
      /\ db' = a.db
      /\ result' = Said("delete", a)
      /\ UNCHANGED <<users, txns, today, call, client>>

\* ------------------------------------------------------------------ transactions
\* SpecTxn: the same statements with the moment they write and the moment they
\* commit apart.  The committed rows are users and db; what a session has written
\* is in txns until TxCommit publishes it or TxAbort drops it.

\* Session s runs INSERT INTO auth.users for tenant t: the row is written.
TxInsertUser(s, t, name) ==
  /\ result = Idle
  /\ txns[s] = NoWork
  /\ TotalRows(db) + OpenTxns < MaxRows
  /\ t \notin PendingUsers(s)
  /\ IF InsertUser(t, users) # "ok"
       THEN /\ result' = [op |-> "create_tenant", status |-> InsertUser(t, users)]
            /\ UNCHANGED txns
       ELSE /\ txns' = [txns EXCEPT ![s] =
                          [kind |-> "signup", tbl |-> "users",
                           new |-> [id |-> t, email |-> "e", name |-> name],
                           rows |-> {}]]
            /\ UNCHANGED result
  /\ UNCHANGED <<users, db, today, call, client>>

\* ... the trigger on_auth_user_created fires, inside the same transaction.
TxTrigger(s, gen) ==
  LET new == txns[s].new
      h == handle_new_user(new, gen, profiles, users \cup {new.id})
  IN  /\ result = Idle
      /\ txns[s].kind = "signup"
      /\ h.status # "unique_violation" =>
           ~Waits("profiles", NewProfile(new, gen), Pending("profiles", s))
      /\ IF Aborts(h.status)
           THEN /\ txns' = [txns EXCEPT ![s] = NoWork]
                /\ result' = [op |-> "handle_new_user", status |-> h.status]
           ELSE /\ txns' = [txns EXCEPT ![s] =
                              [kind |-> "signup_done", tbl |-> "profiles", new |-> new,
                               rows |-> h.rows]]
                /\ UNCHANGED result
      /\ UNCHANGED <<users, db, today, call, client>>

\* Session s runs a tenant's INSERT INTO tbl: the row is written, or the statement
\* fails, or (guard) it waits for the transaction that holds the same key.
TxInsert(s, uid, tbl, gen, cols) ==
  LET row == Merge(DefaultRow(tbl, gen), cols)
      a == ExecInsert(uid, tbl, row, users, db)
  IN  /\ result = Idle
      /\ txns[s] = NoWork
      /\ uid \in users
      /\ TotalRows(db) + OpenTxns < MaxRows
      /\ a.status \in {"ok", "fk_violation"} => ~Waits(tbl, row, Pending(tbl, s))
      /\ IF a.status # "ok"
           THEN /\ result' = Said("insert", a)
                /\ UNCHANGED txns
           ELSE /\ txns' = [txns EXCEPT ![s] =
                              [kind |-> "insert", tbl |-> tbl, new |-> <<>>,
                               rows |-> {row}]]
                /\ UNCHANGED result
      /\ UNCHANGED <<users, db, today, call, client>>

\* The transaction of session s commits: what it wrote becomes visible, at once.
TxCommit(s) ==
  /\ result = Idle
  /\ txns[s].kind \in {"signup_done", "insert"}
  /\ users' = IF txns[s].kind = "signup_done" THEN users \cup {txns[s].new.id} ELSE users
  /\ db' = [db EXCEPT ![txns[s].tbl] = @ \cup Written(txns[s])]
  /\ result' = [op |-> IF txns[s].kind = "insert" THEN "insert" ELSE "create_tenant",
                status |-> "ok"]
  /\ txns' = [txns EXCEPT ![s] = NoWork]
  /\ UNCHANGED <<today, call, client>>

\* The transaction of session s is rolled back (the connection is lost).
TxAbort(s) ==
  /\ txns[s] # NoWork
  /\ txns' = [txns EXCEPT ![s] = NoWork]
  /\ UNCHANGED <<users, db, result, today, call, client>>

\* ------------------------------------------------------------------ inputs
Owners == Tenants \cup {NULL}
Filters == Ids \cup {ALL}

\* The columns an INSERT names besides id, with a payload that satisfies the
\* table's constraints.
GoodCols(tbl) ==
  CASE tbl = "profiles" -> {<<>>}
    [] tbl = "applications" -> {[job_title |-> "dev", company |-> "acme"]}
    [] tbl = "learning_progress" -> {[milestone_id |-> m] : m \in {"m1", "m2"}}
    [] tbl = "wellness_logs" ->
         {[mood |-> "good", energy_level |-> 5, stress_level |-> 5]}
    [] tbl = "saved_jobs" -> {[job_title |-> "dev", company |-> "acme"]}
    [] tbl = "interview_sessions" -> {[interview_type |-> "technical"]}

\* ... and with a payload that breaks a NOT NULL or CHECK constraint.
BadCols(tbl) ==
  CASE tbl = "profiles" -> {}
    [] tbl = "applications" ->
         {[job_title |-> "dev", company |-> "acme", status |-> "bogus"]}
    [] tbl = "learning_progress" -> {[completed |-> TRUE]}
    [] tbl = "wellness_logs" ->
         {[mood |-> "good", energy_level |-> 11, stress_level |-> 5]}
    [] tbl = "saved_jobs" -> {[job_title |-> "dev"]}
    [] tbl = "interview_sessions" -> {[interview_type |-> "quiz"]}

\* The INSERTs of Spec, as <<auth.uid(), columns>>: every caller with every owner
\* for a valid payload, and each tenant's own row for an invalid one.
InsertRequests(tbl) ==
  {<<uid, [user_id |-> o] @@ c>> : uid \in Callers, o \in Owners, c \in GoodCols(tbl)}
    \cup {<<t, [user_id |-> t] @@ c>> : t \in Tenants, c \in BadCols(tbl)}

\* The columns an UPDATE sets.
Patches(tbl) ==
  CASE tbl = "profiles" -> {[user_id |-> o] : o \in Owners} \cup {[name |-> "ann"]}
    [] tbl = "applications" ->
         {[user_id |-> o] : o \in Owners} \cup {[status |-> "offer"], [status |-> "bogus"]}
    [] tbl = "learning_progress" ->
         {[user_id |-> o] : o \in Owners} \cup {[milestone_id |-> "m1"]}
    [] OTHER -> {[user_id |-> "t1"]}

Next ==
  \/ \E t \in Tenants, gen \in Ids : CreateTenant(t, NULL, gen)
  \/ \E t \in Tenants : DeleteTenant(t)
  \/ \E uid \in Callers, tbl \in Tables, id \in Filters : Select(uid, tbl, id)
  \/ \E tbl \in Tables, gen \in Ids :
       \E rq \in InsertRequests(tbl) : Insert(rq[1], tbl, gen, rq[2])
  \/ \E uid \in Tenants, tbl \in Tables, id \in Filters :
       \E patch \in Patches(tbl) : Update(uid, tbl, id, patch)
  \/ \E uid \in Tenants, tbl \in Tables, id \in Filters : Delete(uid, tbl, id)
  \/ Return

Spec == Init /\ [][Next]_vars

\* The tables of SpecTxn, and the rows its tenants insert: their own.
TxTables == {"profiles", "learning_progress"}

NextTxn ==
  \/ \E s \in Sessions, t \in Tenants : TxInsertUser(s, t, NULL)
  \/ \E s \in Sessions, gen \in Ids : TxTrigger(s, gen)
  \/ \E s \in Sessions, uid \in Tenants, tbl \in TxTables, gen \in Ids :
       \E c \in GoodCols(tbl) : TxInsert(s, uid, tbl, gen, [user_id |-> uid] @@ c)
  \/ \E s \in Sessions : TxCommit(s)
  \/ \E s \in Sessions : TxAbort(s)
  \/ \E t \in Tenants : DeleteTenant(t)
  \/ \E uid \in Tenants, id \in Ids :
       Update(uid, "learning_progress", id, [milestone_id |-> "m1"])
  \/ \E uid \in Tenants : Select(uid, "profiles", ALL)
  \/ Return

SpecTxn == Init /\ [][NextTxn]_vars

\* ------------------------------------------------------------------ SpecWrites
\* The writes of one tenant to the tables that carry NOT NULL and CHECK
\* constraints, with payloads inside, outside and short of the constraints.
WriteTables == {"applications", "wellness_logs", "interview_sessions"}

\* The columns an INSERT names besides id and user_id; a column that is not named
\* takes its DEFAULT.
WriteCols(tbl) ==
  CASE tbl = "applications" ->
         {[job_title |-> "dev", company |-> "acme"],
          [job_title |-> "dev", company |-> "acme", status |-> "viewed"],
          [job_title |-> "dev", company |-> "acme", status |-> NULL],
          [job_title |-> "dev", company |-> "acme", status |-> "bogus"],
          [job_title |-> "dev"]}
    [] tbl = "wellness_logs" ->
         {[mood |-> "good", energy_level |-> 5, stress_level |-> 5],
          [mood |-> "good", energy_level |-> 11, stress_level |-> 5],
          [mood |-> "good", energy_level |-> 0, stress_level |-> 5],
          [mood |-> "good", energy_level |-> 5, stress_level |-> 11],
          [mood |-> "ecstatic", energy_level |-> 5, stress_level |-> 5],
          [energy_level |-> 5, stress_level |-> 5],
          <<>>}
    [] tbl = "interview_sessions" ->
         {[interview_type |-> "technical"], [interview_type |-> "quiz"], <<>>}

\* The columns an UPDATE sets.
WritePatches(tbl) ==
  CASE tbl = "applications" ->
         {[status |-> "offer"], [status |-> "bogus"], [status |-> NULL],
          [company |-> NULL]}
    [] tbl = "wellness_logs" -> {[mood |-> "low"], [energy_level |-> 11]}
    [] tbl = "interview_sessions" -> {[interview_type |-> NULL]}

NextWrites ==
  \/ \E gen \in Ids : CreateTenant("t1", NULL, gen)
  \/ DeleteTenant("t1")
  \/ \E tbl \in WriteTables, gen \in Ids :
       \E c \in WriteCols(tbl) : Insert("t1", tbl, gen, [user_id |-> "t1"] @@ c)
  \/ \E tbl \in WriteTables, id \in Filters :
       \E patch \in WritePatches(tbl) : Update("t1", tbl, id, patch)
  \/ \E tbl \in WriteTables, id \in Filters : Delete("t1", tbl, id)
  \/ \E tbl \in WriteTables : Select("t1", tbl, ALL)
  \/ Return

SpecWrites == Init /\ [][NextWrites]_vars

\* ------------------------------------------------------------------ functions
\* COUNT(*) and COUNT(*) FILTER (WHERE status = ...) over `rows`, one row at a time.
RECURSIVE Aggregate(_, _)
Aggregate(rows, acc) ==
  IF rows = {} THEN acc
  ELSE LET r == CHOOSE x \in rows : TRUE
           Hit(s) == IF r.status = s THEN 1 ELSE 0
       IN  Aggregate(rows \ {r},
                     [total |-> acc.total + 1,
                      applied |-> acc.applied + Hit("applied"),
                      interviews |-> acc.interviews + Hit("interview"),
                      offers |-> acc.offers + Hit("offer"),
                      rejected |-> acc.rejected + Hit("rejected")])

\* A query without its WHERE clause.
StatsRowsUnfiltered(uid, p_user_id, d) == d["applications"]

\* The query of a SECURITY DEFINER function: no policy applies.
StatsRowsSecurityDefiner(uid, p_user_id, d) ==
  {r \in d["applications"] : OwnerMatch(p_user_id, r)}

\* FROM applications WHERE user_id = p_user_id.  The function is not SECURITY
\* DEFINER: the rows are those the caller's SELECT policy lets through.
StatsRows(uid, p_user_id, d) ==
  {r \in d["applications"] :
     PolicyOK("SELECT", "applications", uid, r) /\ OwnerMatch(p_user_id, r)}

\* A function that keeps its counters from one call to the next.
StatsOnTopOfLastAnswer(uid, p_user_id, d) ==
  Aggregate(StatsRows(uid, p_user_id, d),
            IF result.op = "get_application_stats" THEN result.value
            ELSE [total |-> 0, applied |-> 0, interviews |-> 0, offers |-> 0,
                  rejected |-> 0])

\* get_application_stats(p_user_id) called with auth.uid() = uid on the tables d.
get_application_stats(uid, p_user_id, d) ==
  Aggregate(StatsRows(uid, p_user_id, d),
            [total |-> 0, applied |-> 0, interviews |-> 0, offers |-> 0, rejected |-> 0])

\* The calls whose answer carries a value.
Calls == {"get_application_stats", "get_learning_streak"}

\* SELECT * FROM get_application_stats(p_user_id): one query on one snapshot.  It
\* may follow another call directly.
ApplicationStats(uid, p_user_id) ==
  /\ result = Idle \/ result.op \in Calls
  /\ result' = [op |-> "get_application_stats", status |-> "ok", uid |-> uid,
                p |-> p_user_id, value |-> get_application_stats(uid, p_user_id, db)]
  /\ UNCHANGED <<users, db, txns, today, call, client>>

\* A query that does not look at completed.
HasActivityAnyRow(uid, p_user_id, check_date, d) ==
  \E r \in d["learning_progress"] :
    OwnerMatch(p_user_id, r) /\ r.updated_at = check_date

\* SELECT EXISTS (SELECT 1 FROM learning_progress WHERE user_id = p_user_id AND
\* updated_at::DATE = check_date AND completed = TRUE), under the caller's SELECT
\* policy (the function is not SECURITY DEFINER).
HasActivity(uid, p_user_id, check_date, d) ==
  \E r \in d["learning_progress"] :
    /\ PolicyOK("SELECT", "learning_progress", uid, r)
    /\ OwnerMatch(p_user_id, r)
    /\ r.updated_at = check_date
    /\ r.completed = TRUE

\* A walk that starts at the last day with a completed row, not at CURRENT_DATE.
StreakStartAtLastActivity(uid, p_user_id, day) ==
  LET active == {r.updated_at : r \in {x \in db["learning_progress"] :
                    x.user_id = p_user_id /\ x.completed /\ x.updated_at <= day}}
  IN  [pc |-> "loop", uid |-> uid, p |-> p_user_id, streak |-> 0, checks |-> 0,
       check_date |-> IF active = {} THEN day
                      ELSE CHOOSE a \in active : \A b \in active : b <= a]

\* DECLARE streak INTEGER := 0; check_date DATE := CURRENT_DATE.  `checks` counts
\* the queries the loop has run.
StreakStart(uid, p_user_id, day) ==
  [pc |-> "loop", uid |-> uid, p |-> p_user_id, streak |-> 0, check_date |-> day,
   checks |-> 0]

\* A pass that runs its query twice.
StreakIterTwoQueries(c, d) ==
  IF ~HasActivity(c.uid, c.p, c.check_date, d)
    THEN [c EXCEPT !.pc = "done", !.checks = @ + 2]
    ELSE [c EXCEPT !.streak = @ + 1, !.check_date = @ - 1, !.checks = @ + 2]

\* One pass of the LOOP on the tables d: the query, EXIT WHEN NOT has_activity,
\* else streak + 1 and check_date - 1 day.
StreakIter(c, d) ==
  IF ~HasActivity(c.uid, c.p, c.check_date, d)
    THEN [c EXCEPT !.pc = "done", !.checks = @ + 1]
    ELSE [c EXCEPT !.streak = @ + 1, !.check_date = @ - 1, !.checks = @ + 1]

\* The LOOP run to its RETURN on tables that do not change meanwhile.
RECURSIVE StreakLoop(_, _)
StreakLoop(c, d) == IF c.pc = "done" THEN c ELSE StreakLoop(StreakIter(c, d), d)

\* get_learning_streak(p_user_id) called with auth.uid() = uid on the day `day`.
get_learning_streak(uid, p_user_id, d, day) ==
  StreakLoop(StreakStart(uid, p_user_id, day), d)

\* SELECT get_learning_streak(p_user_id) with no other statement committing while
\* it runs.  It may follow another call directly.
LearningStreak(uid, p_user_id) ==
  LET c == get_learning_streak(uid, p_user_id, db, today)
  IN  /\ result = Idle \/ result.op \in Calls
      /\ result' = [op |-> "get_learning_streak", status |-> "ok", uid |-> uid,
                    p |-> p_user_id, value |-> c.streak, checks |-> c.checks]
      /\ UNCHANGED <<users, db, txns, today, call, client>>

\* ------------------------------------------------------------------ SpecStats
\* Two tenants, created with their profiles; their applications, and the calls of
\* get_application_stats.
MaxApps == 4

InitStats ==
  /\ users = Tenants
  /\ db = [tbl \in Tables |->
             IF tbl = "profiles"
               THEN {NewProfile([id |-> "t1", email |-> "e", name |-> NULL], 1),
                     NewProfile([id |-> "t2", email |-> "e", name |-> NULL], 2)}
               ELSE {}]
  /\ result = Idle
  /\ txns = NoTxn
  /\ today = 0
  /\ call = NoCall
  /\ client = ClientInit

\* INSERT INTO applications without an id: gen_random_uuid() draws a fresh one.
InsertApplication(uid, cols) ==
  LET gen == Cardinality(applications) + 1
      a == ExecInsert(uid, "applications", Merge(DefaultRow("applications", gen), cols),
                      users, db)
  IN  /\ result = Idle
      /\ gen <= MaxApps
      /\ db' = a.db
      /\ result' = Said("insert", a)
      /\ UNCHANGED <<users, txns, today, call, client>>

\* The applications the tenants insert: t1 with every status (and an explicit
\* NULL), t2 with the default.
StatsCols(t) ==
  IF t = "t1"
    THEN {[user_id |-> t, job_title |-> "dev", company |-> "acme", status |-> st] :
            st \in StatusSet \cup {NULL}}
    ELSE {[user_id |-> t, job_title |-> "dev", company |-> "acme"]}

NextStats ==
  \/ \E uid \in Tenants : \E c \in StatsCols(uid) : InsertApplication(uid, c)
  \/ \E id \in 1..MaxApps : Update("t1", "applications", id, [status |-> "interview"])
  \/ \E uid \in Tenants, p \in Tenants : ApplicationStats(uid, p)
  \/ Return

SpecStats == InitStats /\ [][NextStats]_vars

\* ------------------------------------------------------------------ SpecStreak
\* Two tenants, created with their profiles; days pass, the tenants record
\* learning progress, and get_learning_streak is called.
MaxDay == 3
MaxProgress == 4

\* Midnight passes.
Tick ==
  /\ result = Idle
  /\ today < MaxDay
  /\ today' = today + 1
  /\ UNCHANGED <<users, db, result, txns, call, client>>

\* INSERT INTO learning_progress without an id and without updated_at: the id is
\* fresh, updated_at is NOW().
InsertProgress(uid, cols) ==
  LET gen == Cardinality(learning_progress) + 1
      a == ExecInsert(uid, "learning_progress",
                      Merge(DefaultRow("learning_progress", gen), cols), users, db)
  IN  /\ result = Idle
      /\ gen <= MaxProgress
      /\ db' = a.db
      /\ result' = Said("insert", a)
      /\ UNCHANGED <<users, txns, today, call, client>>

\* The milestones of the roadmap, in its order.
Milestones == <<"m1", "m2", "m3", "m4", "m5", "m6">>

\* The progress rows the tenants insert: t1 its next milestone, done or not yet;
\* t2 its first milestone, done.
ProgressCols(t) ==
  IF t = "t1"
    THEN {[user_id |-> t, completed |-> b,
           milestone_id |->
             Milestones[Cardinality({r \in learning_progress : r.user_id = t}) + 1]] :
            b \in BOOLEAN}
    ELSE {[user_id |-> t, milestone_id |-> "m1", completed |-> TRUE]}

\* The columns an UPDATE of learning_progress sets: the milestone is marked done
\* or not done; updated_at is not among them and no trigger sets it.
ProgressPatches == {[completed |-> b] : b \in BOOLEAN}

NextStreak ==
  \/ Tick
  \/ \E uid \in Tenants : \E c \in ProgressCols(uid) : InsertProgress(uid, c)
  \/ \E id \in 1..MaxProgress : \E patch \in ProgressPatches :
       Update("t1", "learning_progress", id, patch)
  \/ \E uid \in Tenants : LearningStreak(uid, uid)
  \/ Return

SpecStreak == InitStats /\ [][NextStreak]_vars

\* ------------------------------------------------------------------ isolation
\* The rows of tenant t, and the rows of everybody else, table by table.
Own(t, d) == [tbl \in Tables |-> {r \in d[tbl] : r.user_id = t}]
Others(t, d) == [tbl \in Tables |-> {r \in d[tbl] : r.user_id # t}]

\* C1: in every reachable state, for each of the six tables, a read run for any
\* caller returns only rows owned by that caller, and a read by id of a row that
\* belongs to somebody else is answered not_found, with no row.
ReadsOnlyOwnRows ==
  result = Idle =>
    \A uid \in Callers, tbl \in Tables, id \in Filters :
      LET a == ExecSelect(uid, tbl, id, db)
      IN  /\ \A r \in a.rows : r.user_id = uid /\ r \in db[tbl]
          /\ (id # ALL /\ \A r \in db[tbl] : r.id = id => r.user_id # uid) =>
               a.status = "not_found" /\ a.rows = {}

\* t2 has just been told not_found, and asking for the row t1 owns is answered so.
ReadOfForeignRowSeen ==
  /\ result = [op |-> "select", status |-> "not_found"]
  /\ "t2" \in users
  /\ \E tbl \in Tables \ {"profiles"} : \E r \in db[tbl] :
       /\ r.user_id = "t1"
       /\ ExecSelect("t2", tbl, r.id, db).status = "not_found"
       /\ ExecSelect("t1", tbl, r.id, db).rows = {r}

\* C2: no existence leakage.  Whatever statement tenant t runs, its answer and t's
\* rows afterwards are the same on the tables as they are and on the tables with
\* every other tenant's rows removed; and a read, update or delete by id of a row
\* owned by somebody else is answered not_found.
NoExistenceLeak ==
  result = Idle =>
    \A t \in users, tbl \in Tables :
      LET alone == Own(t, db)
          Same(a, b) == /\ a.status = b.status
                        /\ a.rows = b.rows
                        /\ Own(t, a.db) = Own(t, b.db)
      IN  /\ \A id \in Filters :
                /\ Same(ExecSelect(t, tbl, id, db), ExecSelect(t, tbl, id, alone))
                /\ Same(ExecDelete(t, tbl, id, db), ExecDelete(t, tbl, id, alone))
                /\ \A patch \in Patches(tbl) :
                     Same(ExecUpdate(t, tbl, id, patch, users, db),
                          ExecUpdate(t, tbl, id, patch, users, alone))
          /\ \A gen \in Ids : \A rq \in InsertRequests(tbl) :
                rq[1] = t =>
                  Same(ExecInsert(t, tbl, Merge(DefaultRow(tbl, gen), rq[2]), users, db),
                       ExecInsert(t, tbl, Merge(DefaultRow(tbl, gen), rq[2]), users, alone))
          /\ \A r \in db[tbl] :
                r.user_id # t =>
                  /\ ExecSelect(t, tbl, r.id, db).status = "not_found"
                  /\ ExecDelete(t, tbl, r.id, db).status = "not_found"
                  /\ \A patch \in Patches(tbl) :
                       ExecUpdate(t, tbl, r.id, patch, users, db).status = "not_found"

\* C3: in every reachable state and every table, an INSERT adds no row but one
\* owned by the tenant who ran it, and an INSERT whose user_id is not the caller's
\* own id (another tenant's, or NULL) fails and stores nothing.
InsertStoresOnlyOwnRows ==
  result = Idle =>
    \A tbl \in Tables, gen \in Ids : \A rq \in InsertRequests(tbl) :
      LET a == ExecInsert(rq[1], tbl, Merge(DefaultRow(tbl, gen), rq[2]), users, db)
      IN  /\ \A tb \in Tables : \A r \in a.db[tb] \ db[tb] :
                rq[1] \in Tenants /\ r.user_id = rq[1]
          /\ \A tb \in Tables : db[tb] \subseteq a.db[tb]
          /\ rq[2].user_id # rq[1] => a.status # "ok" /\ a.db = db

\* An INSERT has just been refused by the policy, and t2's insert of a row for t1
\* (both tenants exist, the id is free) is refused so.
ForeignInsertRefused ==
  /\ result = [op |-> "insert", status |-> "rls_violation"]
  /\ users = Tenants
  /\ \E gen \in Ids :
       /\ \A r \in saved_jobs : r.id # gen
       /\ ExecInsert("t2", "saved_jobs",
                     Merge(DefaultRow("saved_jobs", gen),
                           [user_id |-> "t1", job_title |-> "dev", company |-> "acme"]),
                     users, db).status = "rls_violation"

\* C4: in every reachable state, every UPDATE and DELETE a tenant can run, by id or
\* on all rows, leaves the rows of every other owner exactly as they were, in all
\* six tables.
UpdateDeleteFrame ==
  result = Idle =>
    \A uid \in Tenants, tbl \in Tables, id \in Filters :
      /\ Others(uid, ExecDelete(uid, tbl, id, db).db) = Others(uid, db)
      /\ \A patch \in Patches(tbl) :
           Others(uid, ExecUpdate(uid, tbl, id, patch, users, db).db) = Others(uid, db)

\* A DELETE has just removed a tenant's saved job while the other tenant has rows.
DeleteBesideForeignRows ==
  /\ result = [op |-> "delete", status |-> "ok"]
  /\ users = Tenants
  /\ \A t \in Tenants : \E r \in profiles : r.user_id = t

\* C5: in every reachable state every existing tenant has exactly one profiles row.
OneProfilePerTenant ==
  \A t \in users : Cardinality({r \in profiles : r.user_id = t}) = 1

\* A tenant's own INSERT INTO profiles has just been refused as a duplicate.
SecondProfileRefused ==
  /\ result = [op |-> "insert", status |-> "unique_violation"]
  /\ \A tbl \in Tables \ {"profiles"} : db[tbl] = {}
  /\ Cardinality(profiles) = 1

\* C8: a step that deletes tenant t removes every row of t from all six tables and
\* leaves every other row as it was.
CascadeRemovesOnlyTenantRows ==
  [][(result'.op = "delete_tenant" /\ result'.status = "ok") =>
       \E t \in users \ users' :
         /\ users' = users \ {t}
         /\ \A tbl \in Tables :
              /\ \A r \in db'[tbl] : r.user_id # t
              /\ \A r \in db[tbl] : r.user_id # t => r \in db'[tbl]
              /\ db'[tbl] \subseteq db[tbl]]_vars

\* A tenant has just been deleted and the other tenant still has its rows.
TenantDeletedOtherKept ==
  /\ result = [op |-> "delete_tenant", status |-> "ok"]
  /\ Cardinality(users) = 1
  /\ \E tbl \in Tables \ {"profiles"} : db[tbl] # {}

\* C9: in every reachable state every row of every table has a user_id, and it is
\* the id of an existing tenant.
OwnerIsExistingTenant ==
  \A tbl \in Tables : \A r \in db[tbl] : r.user_id # NULL /\ r.user_id \in users

\* An INSERT by a caller whose tenant is gone has just failed on the foreign key.
InsertForMissingTenantRefused ==
  /\ result = [op |-> "insert", status |-> "fk_violation"]
  /\ users # {}


\* ------------------------------------------------------------------ lifecycle claims
\* Every uncommitted row of `tbl`, whoever wrote it.
AllPending(tbl) == Pending(tbl, 0)

\* C6: in every state of SpecTxn, transactions in flight or not, every committed
\* tenant has a committed profiles row: no request ever sees a tenant without a
\* profile, and a sign-up whose trigger failed has left no tenant behind.
NoTenantWithoutProfile ==
  /\ \A t \in users : \E r \in profiles : r.user_id = t
  /\ result.op = "handle_new_user" =>
       /\ result.status # "ok"
       /\ Cardinality(users) = Cardinality(profiles)

\* The trigger's INSERT has just failed (the id it drew is taken) while another
\* tenant exists: the sign-up is gone, the tables are as they were.
TriggerFailureSeen ==
  /\ result = [op |-> "handle_new_user", status |-> "unique_violation"]
  /\ Cardinality(users) = 1
  /\ Cardinality(profiles) = 1

\* C7: of the attempts to create a profile for one tenant, at most one succeeds:
\* committed and uncommitted rows together never hold two profiles of a tenant,
\* and once a tenant's profile is stored, the tenant's own INSERT is answered
\* unique_violation and changes no table, and so is a repeated sign-up.
SecondProfileAttemptFails ==
  /\ \A t \in Tenants :
       Cardinality({r \in profiles \cup AllPending("profiles") : r.user_id = t}) <= 1
  /\ result = Idle =>
       \A r \in profiles : \A gen \in Ids :
         LET t == r.user_id
             own == ExecInsert(t, "profiles",
                               Merge(DefaultRow("profiles", gen), [user_id |-> t]),
                               users, db)
         IN  /\ own.status = "unique_violation" /\ own.db = db
             /\ InsertUser(t, users) = "unique_violation"

\* A tenant's INSERT has just been refused as a duplicate while the only stored
\* rows are the profiles: it was a second profile.
SecondProfileAttemptSeen ==
  /\ result = [op |-> "insert", status |-> "unique_violation"]
  /\ learning_progress = {}
  /\ Cardinality(profiles) = 2
  /\ \A s \in Sessions : txns[s] = NoWork

\* C10: in every state of SpecTxn learning_progress holds at most one committed
\* row per (user_id, milestone_id), however the inserts and updates of the
\* sessions interleave, and an INSERT of a pair that is stored is answered
\* unique_violation and changes no table.
OneProgressRowPerMilestone ==
  /\ \A a \in learning_progress, b \in learning_progress :
       (a.user_id = b.user_id /\ a.milestone_id = b.milestone_id) => a = b
  /\ result = Idle =>
       \A r \in learning_progress : \A gen \in Ids :
         LET a == ExecInsert(r.user_id, "learning_progress",
                             Merge(DefaultRow("learning_progress", gen),
                                   [user_id |-> r.user_id,
                                    milestone_id |-> r.milestone_id]),
                             users, db)
         IN  a.status = "unique_violation" /\ a.db = db

\* One session has written a progress row and not committed; the same pair sent
\* by the other session under a free id has to wait for it.
ConcurrentProgressInsertWaits ==
  \E s \in Sessions : \E r \in Written(txns[s]) : \E gen \in Ids :
    /\ txns[s].tbl = "learning_progress"
    /\ gen # r.id
    /\ \A o \in Sessions \ {s} :
         /\ txns[o] = NoWork
         /\ Waits("learning_progress",
                  Merge(DefaultRow("learning_progress", gen),
                        [user_id |-> r.user_id, milestone_id |-> r.milestone_id]),
                  Pending("learning_progress", o))

\* ------------------------------------------------------------------ validation claims
\* C11: in every reachable state every applications row has a job title, a company
\* and a status of the set, every wellness_logs row a mood of the set and an
\* energy and a stress level in 1..10, every interview_sessions row a type of
\* the set.
FieldsPresentAndInRange ==
  /\ \A r \in applications :
       r.job_title # NULL /\ r.company # NULL /\ r.status \in StatusSet
  /\ \A r \in wellness_logs :
       /\ r.mood \in MoodSet
       /\ r.energy_level \in EnergyMin..EnergyMax
       /\ r.stress_level \in EnergyMin..EnergyMax
  /\ \A r \in interview_sessions : r.interview_type \in InterviewTypeSet

\* C12: a write that is answered with an error leaves the six tables and the
\* tenants as they were, and a tenant's INSERT INTO wellness_logs with energy
\* level 11 or mood "ecstatic" is answered validation_error.
RejectedWriteWritesNothing ==
  [][/\ (result'.op \in {"insert", "update", "delete"} /\ result'.status # "ok") =>
          db' = db /\ users' = users
     /\ (result = Idle /\ "t1" \in users) =>
          \A gen \in Ids :
            \A c \in {[mood |-> "good", energy_level |-> 11, stress_level |-> 5],
                      [mood |-> "ecstatic", energy_level |-> 5, stress_level |-> 5]} :
              LET a == ExecInsert("t1", "wellness_logs",
                                  Merge(DefaultRow("wellness_logs", gen),
                                        [user_id |-> "t1"] @@ c),
                                  users, db)
              IN  a.status = "validation_error" /\ a.db = db]_vars

\* A write has just been refused for its values while the tenant has a wellness
\* log stored.
WellnessInsertRejected ==
  /\ result = [op |-> "insert", status |-> "validation_error"]
  /\ wellness_logs # {}
  /\ \E gen \in Ids : \A r \in wellness_logs : r.id # gen

\* ------------------------------------------------------------------ SpecCalls
\* One tenant's applications and learning progress, days passing, and both
\* functions called, also one call right after another.
NextCalls ==
  \/ Tick
  \/ InsertApplication("t1", [user_id |-> "t1", job_title |-> "dev", company |-> "acme"])
  \/ \E c \in ProgressCols("t1") : InsertProgress("t1", c)
  \/ \E uid \in Tenants : ApplicationStats(uid, "t1")
  \/ \E uid \in Tenants : LearningStreak(uid, "t1")
  \/ Return

SpecCalls == InitStats /\ [][NextCalls]_vars

\* ------------------------------------------------------------------ SpecStreakRun
\* get_learning_streak pass by pass.  The function is VOLATILE plpgsql called at
\* READ COMMITTED: each pass's query sees what is committed when it runs, so the
\* statements of other requests fall between the passes.

\* The call starts: CURRENT_DATE is read once and the first pass runs (nothing is
\* read before its query, so a statement committing in between is one committing
\* before the call).  at_start records what the call would return on the tables
\* as that query sees them.
StreakBegin(uid, p_user_id) ==
  /\ call.pc \in {"none", "done"}
  /\ call' = [at_start |-> get_learning_streak(uid, p_user_id, db, today).streak]
                @@ StreakIter(StreakStart(uid, p_user_id, today), db)
  /\ UNCHANGED <<users, db, result, txns, today, client>>

\* A later pass of the loop, on the committed tables.
StreakCheck ==
  /\ call.pc = "loop"
  /\ call' = StreakIter(call, db)
  /\ UNCHANGED <<users, db, result, txns, today, client>>

NextRun ==
  \/ Tick
  \/ \E c \in ProgressCols("t1") : InsertProgress("t1", c)
  \/ \E id \in 1..MaxProgress : \E patch \in ProgressPatches :
       Update("t1", "learning_progress", id, patch)
  \/ StreakBegin("t1", "t1")
  \/ StreakCheck
  \/ Return

\* The backend that runs the function keeps running it.
SpecStreakRun == InitStats /\ [][NextRun]_vars /\ WF_vars(StreakCheck)

\* ------------------------------------------------------------------ function claims
\* The applications rows of tenant t with status st.
WithStatus(t, st) == {r \in applications : r.user_id = t /\ r.status = st}

\* C13: whenever a tenant's call get_application_stats(T) has answered, total is
\* the number of T's applications rows at that moment and each of applied,
\* interviews, offers, rejected is the number of T's rows with that status (rows
\* with status viewed and rows of other tenants add to no bucket); statuses
\* applied, applied, interview, offer give 4, 2, 1, 1, 0.
StatsCountCurrentRows ==
  (result.op = "get_application_stats" /\ result.uid = result.p) =>
    LET t == result.p
        v == result.value
    IN  /\ v.total = Cardinality({r \in applications : r.user_id = t})
        /\ v.applied = Cardinality(WithStatus(t, "applied"))
        /\ v.interviews = Cardinality(WithStatus(t, "interview"))
        /\ v.offers = Cardinality(WithStatus(t, "offer"))
        /\ v.rejected = Cardinality(WithStatus(t, "rejected"))
        /\ ( /\ v.total = 4
             /\ Cardinality(WithStatus(t, "applied")) = 2
             /\ Cardinality(WithStatus(t, "interview")) = 1
             /\ Cardinality(WithStatus(t, "offer")) = 1 ) =>
               v = [total |-> 4, applied |-> 2, interviews |-> 1, offers |-> 1,
                    rejected |-> 0]

\* t1 holds applied, applied, interview, offer and has been answered 4, 2, 1, 1, 0.
StatsExampleSeen ==
  /\ result.op = "get_application_stats"
  /\ result.uid = "t1" /\ result.p = "t1"
  /\ Cardinality(WithStatus("t1", "applied")) = 2
  /\ Cardinality(WithStatus("t1", "interview")) = 1
  /\ Cardinality(WithStatus("t1", "offer")) = 1
  /\ result.value = [total |-> 4, applied |-> 2, interviews |-> 1, offers |-> 1,
                     rejected |-> 0]

\* C14: in every reachable state and for every tenant, the total of
\* get_application_stats is applied + interviews + offers + rejected + the number
\* of the tenant's rows with status viewed.
FunnelReconciles ==
  \A t \in Tenants :
    LET v == get_application_stats(t, t, db)
    IN  v.total = v.applied + v.interviews + v.offers + v.rejected
                    + Cardinality(WithStatus(t, "viewed"))

\* Tenant t has a learning_progress row with completed = TRUE whose updated_at
\* falls on `day`.
Qualifies(t, day) ==
  \E r \in learning_progress : r.user_id = t /\ r.completed /\ r.updated_at = day

\* C15: whenever a tenant's call get_learning_streak(T) has answered n, each of the
\* n days today, today-1, ..., today-(n-1) has a completed row of T updated on
\* that day and the day today-n has none (n is the largest such number); today
\* and the 3 days before with none 4 days ago gives 4.
StreakIsLongestRun ==
  (result.op = "get_learning_streak" /\ result.uid = result.p) =>
    LET t == result.p
        n == result.value
    IN  /\ n >= 0
        /\ \A k \in 0..(n - 1) : Qualifies(t, today - k)
        /\ ~Qualifies(t, today - n)
        /\ ( (\A k \in 0..3 : Qualifies(t, today - k)) /\ ~Qualifies(t, today - 4) ) =>
               n = 4

\* t1 has completed a milestone today and on each of the 3 days before, and has
\* been answered 4.
StreakOfFourSeen ==
  /\ result.op = "get_learning_streak"
  /\ result.uid = "t1"
  /\ result.value = 4
  /\ \A k \in 0..3 : Qualifies("t1", today - k)

\* C16: whenever a tenant's call get_learning_streak(T) has answered, the answer
\* is 0 if T has no qualifying row today, whatever T has on earlier days, and it
\* is at most g if the day today-g has no qualifying row: no day before a gap
\* adds to it.
StreakStopsAtFirstGap ==
  (result.op = "get_learning_streak" /\ result.uid = result.p) =>
    LET t == result.p
    IN  /\ ~Qualifies(t, today) => result.value = 0
        /\ \A g \in 0..MaxDay : ~Qualifies(t, today - g) => result.value <= g

\* t1 completed milestones yesterday and the day before, none today, and has been
\* answered 0.
StreakBrokenTodaySeen ==
  /\ result.op = "get_learning_streak"
  /\ result.uid = "t1"
  /\ result.value = 0
  /\ ~Qualifies("t1", today)
  /\ Qualifies("t1", today - 1) /\ Qualifies("t1", today - 2)

\* The days on which tenant t has a completed row.
CompletedDays(t) == {r.updated_at : r \in {x \in learning_progress : x.user_id = t /\ x.completed}}

\* C17: get_learning_streak terminates: a running call reaches its RETURN; on
\* every reachable row set its result r has 0 <= r <= the number of distinct days
\* with a completed row of the tenant, and the call makes at most r + 1 day
\* checks.
StreakTerminates ==
  /\ [](\A t \in Tenants :
          LET c == get_learning_streak(t, t, db, today)
          IN  /\ c.pc = "done"
              /\ 0 <= c.streak /\ c.streak <= Cardinality(CompletedDays(t))
              /\ c.checks <= c.streak + 1)
  /\ [](call.pc = "done" => call.checks <= call.streak + 1)
  /\ ((call.pc = "loop") ~> (call.pc = "done"))

\* A call has returned 2 after 3 day checks.
StreakReturnedAfterThreeChecks ==
  call.pc = "done" /\ call.streak = 2 /\ call.checks = 3

\* C18: the value a get_learning_streak call returns is the streak of the rows as
\* they stood when the call started (when its first query ran), whatever other
\* requests commit between its day checks.
StreakOfStartSnapshot ==
  call.pc = "done" => call.streak = call.at_start

KeptTables == {"profiles", "applications", "learning_progress", "interview_sessions"}
InterviewPatches == {[interview_type |-> "hr"]} \cup {[user_id |-> o] : o \in Owners}

\* C21: in every reachable state, a DELETE by any caller on profiles,
\* applications, learning_progress or interview_sessions and an UPDATE by any
\* caller on interview_sessions change no table; a saved_jobs row is read and
\* deleted by its owner, and a read or delete by any other caller neither returns
\* nor removes it.
RowLifecyclePerEntity ==
  result = Idle =>
    /\ \A uid \in Callers, id \in Filters :
         /\ \A tbl \in KeptTables : ExecDelete(uid, tbl, id, db).db = db
         /\ \A patch \in InterviewPatches :
              ExecUpdate(uid, "interview_sessions", id, patch, users, db).db = db
    /\ \A r \in saved_jobs :
         /\ r \in ExecSelect(r.user_id, "saved_jobs", r.id, db).rows
         /\ ExecDelete(r.user_id, "saved_jobs", r.id, db).db =
              [db EXCEPT !["saved_jobs"] = @ \ {r}]
         /\ \A uid \in Callers \ {r.user_id}, id \in Filters :
              /\ r \notin ExecSelect(uid, "saved_jobs", id, db).rows
              /\ r \in ExecDelete(uid, "saved_jobs", id, db).db["saved_jobs"]

\* The owner has just deleted a saved job while an interview session is stored.
SavedJobDeletedSessionKept ==
  /\ result = [op |-> "delete", status |-> "ok"]
  /\ interview_sessions # {}
  /\ saved_jobs = {}

\* ------------------------------------------------------------------ SpecProfile
\* Sign-ups with and without a name in the metadata, and writes of lists to the
\* JSONB columns of a profile and of an interview session.

MaxList == 2

\* The email of tenant t's sign-up.
Email(t) == IF t = "t1" THEN "a@x" ELSE "b@x"

\* raw_user_meta_data of a sign-up: empty, with a name, with other keys only.
Metas == {<<>>, [name |-> "ann"], [full_name |-> "ann lee"]}

\* The identity provider creates tenant t with the metadata `meta`.
SignUp(t, meta, gen) ==
  LET o == on_auth_user_created(
             [id |-> t, email |-> Email(t), name |-> MetaText(meta, "name")],
             gen, users, db)
  IN  /\ result = Idle
      /\ TotalRows(db) < MaxRows
      /\ users' = o.users
      /\ db' = o.db
      /\ result' = Said("create_tenant", o)
      /\ UNCHANGED <<txns, today, call, client>>

\* JSON objects as a client sends them: the keys in either order, one key only.
Objects ==
  { <<(<<"level", "hi">>), (<<"name", "ts">>)>>,
    <<(<<"name", "ts">>), (<<"level", "hi">>)>>,
    <<(<<"name", "go">>)>> }

RECURSIVE ListsOf(_)
ListsOf(n) ==
  IF n = 0 THEN {<<>>}
  ELSE ListsOf(n - 1) \cup {Append(l, o) : l \in {x \in ListsOf(n - 1) : Len(x) = n - 1},
                                          o \in Objects}

Lists == ListsOf(MaxList)

ProfileLists == {"skills", "experience", "education", "career_goals"}
SessionLists == {"questions", "answers", "scores"}

\* The lists the requests of SpecProfile send: full length, first and last object
\* of different text.
SentLists == {l \in Lists : Len(l) = MaxList /\ l[1] # l[MaxList]}

\* UPDATE profiles SET <list column> = <list>.
ListPatches(cs) ==
  UNION {{[c \in {col} |-> l] : l \in SentLists} : col \in cs}

\* INSERT INTO interview_sessions (user_id, interview_type, <list column>).
SessionCols(t) ==
  {[user_id |-> t, interview_type |-> "hr"]}
    \cup {[user_id |-> t, interview_type |-> "hr"] @@ p : p \in ListPatches(SessionLists)}

NextProfile ==
  \/ \E meta \in Metas : SignUp("t1", meta, 1)
  \/ SignUp("t2", <<>>, 2)
  \/ \E t \in Tenants : DeleteTenant(t)
  \/ \E patch \in ListPatches(ProfileLists) : Update("t1", "profiles", ALL, patch)
  \/ \E cols \in SessionCols("t2") : Insert("t2", "interview_sessions", 1, cols)
  \/ \E uid \in Tenants, tbl \in {"profiles", "interview_sessions"} :
       Select(uid, tbl, ALL)
  \/ Return

SpecProfile == Init /\ [][NextProfile]_vars

\* ------------------------------------------------------------------ profile claims
\* C22: in every reachable state, a sign-up of a tenant that succeeds adds exactly
\* one profiles row: its owner is the new tenant, its email the sign-up's email,
\* its name the name of the metadata or NULL when the metadata has none, and its
\* skills, experience, education and career_goals are each the empty list.
HookProfileHasDefaults ==
  result = Idle =>
    \A t \in Tenants, meta \in Metas, gen \in Ids :
      LET o == on_auth_user_created(
                 [id |-> t, email |-> Email(t), name |-> MetaText(meta, "name")],
                 gen, users, db)
      IN  o.status = "ok" =>
            o.db["profiles"] \ profiles =
              {[id |-> gen, user_id |-> t, email |-> Email(t),
                name |-> IF meta = [name |-> "ann"] THEN "ann" ELSE NULL,
                skills |-> <<>>, experience |-> <<>>, education |-> <<>>,
                career_goals |-> <<>>]}

\* Two sign-ups have been answered ok: one profile has the name of its metadata
\* and empty lists, the other has no name.
NamedAndUnnamedProfiles ==
  /\ result = [op |-> "create_tenant", status |-> "ok"]
  /\ \E r \in profiles : r.user_id = "t1" /\ r.name = "ann" /\ r.skills = <<>>
  /\ \E r \in profiles : r.user_id = "t2" /\ r.name = NULL /\ r.career_goals = <<>>

\* What the client has of a stored object after JSON.parse of its text: the value
\* under each key.
Parsed(o) == [k \in {o[i][1] : i \in 1..Len(o)} |-> Member(o, k)]

\* Two lists hold the same records in the same order.
SameRecords(a, b) ==
  /\ Len(a) = Len(b)
  /\ \A i \in 1..Len(a) : Parsed(a[i]) = Parsed(b[i])

\* C23: in every reachable state, a list of records that the owner writes to a
\* list column of its profile by UPDATE, or to a list column of a new interview
\* session by INSERT, is stored, and the owner's SELECT of the row returns in that
\* column the same records in the same order.
ListsRoundTrip ==
  result = Idle =>
    /\ \A r \in profiles, col \in ProfileLists, l \in Lists :
         LET a == ExecUpdate(r.user_id, "profiles", r.id, [c \in {col} |-> l], users, db)
             back == ExecSelect(r.user_id, "profiles", r.id, a.db).rows
         IN  /\ a.status = "ok"
             /\ back # {}
             /\ \A row \in back : SameRecords(row[col], l)
    /\ \A t \in users, gen \in Ids, col \in SessionLists, l \in Lists :
         LET cols == [user_id |-> t, interview_type |-> "hr"] @@ [c \in {col} |-> l]
             a == ExecInsert(t, "interview_sessions",
                             Merge(DefaultRow("interview_sessions", gen), cols), users, db)
             back == ExecSelect(t, "interview_sessions", gen, a.db).rows
         IN  a.status = "ok" =>
               /\ back # {}
               /\ \A row \in back : SameRecords(row[col], l)

\* The owner's UPDATE has just been answered ok: its profile holds two different
\* skills in the order written, and an interview session holds two scores.
TwoSkillsInOrderStored ==
  /\ result = [op |-> "update", status |-> "ok"]
  /\ \E r \in profiles :
       /\ r.user_id = "t1"
       /\ Len(r.skills) = 2
       /\ Parsed(r.skills[1]) = [name |-> "go"]
       /\ Parsed(r.skills[2]) = [name |-> "ts", level |-> "hi"]
  /\ \E r \in interview_sessions : Len(r.scores) = 2

\* ------------------------------------------------------------------ ownership
\* The tables with an UPDATE policy.
UpdatableTables == {"profiles", "applications", "learning_progress"}

\* C24: in every reachable state, the owner's UPDATE of a profiles, applications
\* or learning_progress row that sets user_id to another tenant or to NULL is
\* refused and changes nothing; and in every step, a row that is stored before
\* and after the step (same table, same id) has the same owner.
OwnerNeverChanges ==
  /\ [](result = Idle =>
          \A tbl \in UpdatableTables : \A r \in db[tbl] : \A o \in Owners \ {r.user_id} :
            \A id \in {r.id, ALL} :
              ExecUpdate(r.user_id, tbl, id, [user_id |-> o], users, db) =
                Answer("rls_violation", {}, db))
  /\ [][\A tbl \in Tables : \A r \in db[tbl] : \A n \in db'[tbl] :
          n.id = r.id => n.user_id = r.user_id]_vars

\* The owner's UPDATE has just been refused by the policy while rows of all three
\* updatable tables are stored.
OwnerChangeRefused ==
  /\ result = [op |-> "update", status |-> "rls_violation"]
  /\ \A tbl \in UpdatableTables : db[tbl] # {}

\* ------------------------------------------------------------------ calls for another tenant
\* The answer of get_application_stats for a tenant without rows.
NoStats == [total |-> 0, applied |-> 0, interviews |-> 0, offers |-> 0, rejected |-> 0]

\* C25: in every reachable state, get_application_stats and get_learning_streak
\* called by a tenant (or anonymously) with the identifier of another tenant
\* return all counts 0 and streak 0, whatever rows that tenant owns; and every
\* call that has been answered to a caller other than the tenant asked for has
\* returned just that.
ForeignCallsSeeNothing ==
  /\ \A uid \in Callers : \A p \in Tenants \ {uid} :
       /\ get_application_stats(uid, p, db) = NoStats
       /\ get_learning_streak(uid, p, db, today).streak = 0
  /\ (result.op \in Calls /\ result.uid # result.p) =>
       result.value = IF result.op = "get_application_stats" THEN NoStats ELSE 0

\* t2 has just been answered streak 0 for t1 while t1's own call gives a streak
\* and t1 has applications.
ForeignStreakZeroSeen ==
  /\ result.op = "get_learning_streak"
  /\ result.uid = "t2" /\ result.p = "t1"
  /\ result.value = 0
  /\ get_learning_streak("t1", "t1", db, today).streak >= 1
  /\ get_application_stats("t1", "t1", db).total >= 1

\* ------------------------------------------------------------------ SpecStamp
\* One tenant's application and progress rows over the days: inserted with the
\* defaults (status applied, not completed), updated later.

\* The tables with the updated_at column that the claims read.
StampedTables == {"applications", "learning_progress"}

NextStamp ==
  \/ Tick
  \/ /\ applications = {}
     /\ InsertApplication("t1", [user_id |-> "t1", job_title |-> "dev", company |-> "acme"])
  \/ /\ Cardinality(learning_progress) < MaxId
     /\ InsertProgress("t1", [user_id |-> "t1",
                              milestone_id |-> Milestones[Cardinality(learning_progress) + 1]])
  \/ \E st \in {"interview", "offer"} : Update("t1", "applications", ALL, [status |-> st])
  \/ \E id \in Ids : \E patch \in ProgressPatches :
       Update("t1", "learning_progress", id, patch)
  \/ LearningStreak("t1", "t1")
  \/ Return

SpecStamp == InitStats /\ [][NextStamp]_vars

\* C26: in every step, a row of applications or learning_progress that is new has
\* updated_at on the day of the step, and a row that was stored before keeps its
\* updated_at; and in every reachable state, marking a not completed
\* learning_progress row of an earlier day completed makes that earlier day a day
\* with activity for get_learning_streak and leaves today as it was.
UpdatedAtIsInsertDay ==
  /\ [][\A tbl \in StampedTables : \A n \in db'[tbl] :
          IF \E r \in db[tbl] : r.id = n.id
            THEN \A r \in db[tbl] : r.id = n.id => n.updated_at = r.updated_at
            ELSE n.updated_at = today]_vars
  /\ [](result = Idle =>
          \A r \in learning_progress :
            (~r.completed /\ r.updated_at < today) =>
              LET a == ExecUpdate(r.user_id, "learning_progress", r.id,
                                  [completed |-> TRUE], users, db)
              IN  /\ a.status = "ok"
                  /\ HasActivity(r.user_id, r.user_id, r.updated_at, a.db)
                  /\ HasActivity(r.user_id, r.user_id, today, a.db)
                       = HasActivity(r.user_id, r.user_id, today, db))

\* On day 1 an UPDATE has just been answered ok: the only progress row, inserted
\* on day 0 as not completed, is completed and dated day 0, the application
\* inserted on day 0 is past its first status and dated day 0, and the streak is 0.
CompletedLaterCountsForInsertDay ==
  /\ result = [op |-> "update", status |-> "ok"]
  /\ today = 1
  /\ \E r \in learning_progress :
       learning_progress = {r} /\ r.completed /\ r.updated_at = 0
  /\ \E r \in applications : r.status = "offer" /\ r.updated_at = 0
  /\ get_learning_streak("t1", "t1", db, today).streak = 0

\* ------------------------------------------------------------------ SpecClient
\* One browser tab from the landing page on: every button and field of the
\* screens, and the answers of the requests in any order.
NextClient ==
  \/ \E to \in Screen : Click(to)
  \/ ToggleLogin
  \/ \E g \in {"", "octo"} : TypeGithub(g)
  \/ Submit
  \/ AuthAnswered
  \/ SelectFile
  \/ ResumeAnswered
  \/ Continue2
  \/ \E u \in {"", "octo"} : TypeUsername(u)
  \/ Scan
  \/ Rescan
  \/ ScanAnswered
  \/ Continue3
  \/ \E role \in {"", "AI Engineer"} : SetRole(role)
  \/ Continue4
  \/ ProfileAnswered
  \/ Logout

SpecClient == Init /\ [][NextClient]_vars

\* The answers of the requests arrive: a request is answered or fails in the end.
SpecClientFair == SpecClient /\ WF_vars(ProfileAnswered)

\* ------------------------------------------------------------------ client claims
\* The screens behind the sign-in.
Protected ==
  {"ONBOARDING_2", "ONBOARDING_3", "ONBOARDING_4", "ONBOARDING_5", "DASHBOARD",
   "ANALYZER"}

\* The client after the answer res to request r, whichever handler waits for it.
Answered(c, r, res) ==
  CASE r.op = "signin" -> handleAuthLogin(c, r, res)
    [] r.op = "signup" -> handleAuthSignup(c, r, res)
    [] r.op = "signin_after_signup" -> handleAuthSignupSignin(c, r, res)

\* C27: in every reachable state, the current screen is ONBOARDING_2..5,
\* DASHBOARD or ANALYZER only if localStorage holds an access token; and the
\* answer to a request of step 1 moves to DASHBOARD (login) or ONBOARDING_2
\* (sign-up) with the token stored exactly when it is a sign-in answer that
\* carries a token, and otherwise leaves the screen and localStorage as they are.
ProtectedScreensNeedToken ==
  /\ client.currentScreen \in Protected => client.localStorage.access_token # NULL
  /\ \A r \in client.pending :
       r.op \in {"signin", "signup", "signin_after_signup"} =>
         \A res \in IF r.op = "signup" THEN SignupResponses ELSE SigninResponses :
           LET c == Answered(client, r, res)
           IN  IF r.op # "signup" /\ res.status = "ok" /\ res.access_token # NULL
                 THEN /\ c.currentScreen =
                           IF r.op = "signin" THEN "DASHBOARD" ELSE "ONBOARDING_2"
                      /\ c.localStorage.access_token = res.access_token
                 ELSE /\ c.currentScreen = client.currentScreen
                      /\ c.localStorage = client.localStorage

\* A sign-up has led to step 2 with the token and the GitHub user stored, its
\* handler over.
SignedUpOnStep2 ==
  /\ client.currentScreen = "ONBOARDING_2"
  /\ client.localStorage = [access_token |-> "tok", github_username |-> "octo"]
  /\ client.pending = {}

\* C28: in every reachable state of step 4, handleContinue with an empty role
\* sends nothing and changes nothing, and with a role it sets saving and sends the
\* profile update; whenever the update is answered, with success or with an
\* error, the handler ends on ONBOARDING_5 with saving = FALSE, the error logged;
\* and every profile update in flight leads to ONBOARDING_5 with saving = FALSE
\* or to a reload of the page.
Step4ContinueEndsOnStep5 ==
  /\ [](client.currentScreen = "ONBOARDING_4" =>
          LET c == handleContinue(client)
          IN  IF client.step4.role = "" THEN c = client
              ELSE /\ c.step4.saving
                   /\ c.currentScreen = "ONBOARDING_4"
                   /\ \E r \in c.pending \ client.pending :
                        r.op = "updateProfile" /\ r.arg = client.step4.role)
  /\ [](\A r \in client.pending :
          r.op = "updateProfile" =>
            \A res \in {"ok", "error"} :
              LET c == handleContinued(client, r, res)
              IN  /\ c.currentScreen = "ONBOARDING_5"
                  /\ ~c.step4.saving
                  /\ \A q \in c.pending : q.id # r.id
                  /\ res = "error" => c.console = "Failed to save role")
  /\ ((\E r \in client.pending : r.op = "updateProfile")
        ~> ( \/ client.currentScreen = "ONBOARDING_5" /\ ~client.step4.saving
             \/ client = ClientInit ))

\* The profile update has failed and the flow is on step 5, nothing in flight.
FailedSaveOnStep5 ==
  /\ client.currentScreen = "ONBOARDING_5"
  /\ client.console = "Failed to save role"
  /\ ~client.step4.saving
  /\ client.pending = {}

\* C29: in every reachable state of step 2 in which a resume-analysis request of
\* the mounted step is in flight, uploading is TRUE (Continue is disabled).
ContinueDisabledWhileUploading ==
  client.currentScreen = "ONBOARDING_2" =>
    ((\E r \in client.pending : r.op = "analyzeResume" /\ r.live)
       => client.step2.uploading)

\* The scans of the mounted step 3 that are in flight.
LiveScans == {r \in client.pending : r.op = "analyzeGithub" /\ r.live}

\* The answer with data to scan r.
ScanData(r) == [status |-> "ok", data |-> [scan |-> r.id, user |-> r.arg], msg |-> ""]

\* C30: in every reachable state of step 3 in which a scan of the mounted step is
\* in flight, analyzing is TRUE; and when two scans are in flight and both are
\* answered with data, in either order, the data shown is the data of the scan
\* that was started later.
AnalyzingWhileScanningLastScanShown ==
  client.currentScreen = "ONBOARDING_3" =>
    /\ LiveScans # {} => client.step3.analyzing
    /\ \A r1, r2 \in LiveScans :
         (r1.id < r2.id /\ LiveScans = {r1, r2}) =>
           /\ handleScanned(handleScanned(client, r1, ScanData(r1)), r2, ScanData(r2))
                .step3.data.scan = r2.id
           /\ handleScanned(handleScanned(client, r2, ScanData(r2)), r1, ScanData(r1))
                .step3.data.scan = r2.id

====
